---- MODULE Spec2Model ----
(***************************************************************************)
(* Model of build.rs of vma-rs: the build-time generator that scans the    *)
(* enum variants of vk_mem_alloc.h through bindgen's parse callbacks and   *)
(* emits enums.rs.  Text is modelled as sequences of one-character         *)
(* strings, so that prefix stripping, trimming, searching and replacing    *)
(* are computed character by character as the Rust string methods do.      *)
(***************************************************************************)
EXTENDS Integers, Sequences, FiniteSets, TLC

(***************************************************************************)
(* String literals of build.rs.                                            *)
(***************************************************************************)
VmaBrand ==
    <<"V", "m", "a">>
EnumKeyword ==
    <<"e", "n", "u", "m", " ">>
MaxEnumMarker ==
    <<"M", "A", "X", "_", "E", "N", "U", "M">>
FlagBitsText ==
    <<"F", "l", "a", "g", "B", "i", "t", "s">>
FlagsText ==
    <<"F", "l", "a", "g", "s">>
BitTag ==
    <<"_", "B", "I", "T">>

Digits ==
    {"0", "1", "2", "3", "4", "5", "6", "7", "8", "9"}

(***************************************************************************)
(* Option<T> and the string methods the generator uses.                    *)
(***************************************************************************)
None ==
    [some |-> FALSE, val |-> <<>>]

Some(x) ==
    [some |-> TRUE, val |-> x]

\* str::starts_with
StartsWith(s, p) ==
    /\ Len(p) <= Len(s)
    /\ SubSeq(s, 1, Len(p)) = p

\* str::strip_prefix: the rest of s after p, or None when s does not begin with p
StripPrefix(s, p) ==
    IF StartsWith(s, p) THEN Some(SubSeq(s, Len(p) + 1, Len(s))) ELSE None

\* str::trim_start_matches: removes p from the front for as long as it matches
RECURSIVE TrimStartMatches(_, _)
TrimStartMatches(s, p) ==
    IF p # <<>> /\ StartsWith(s, p)
    THEN TrimStartMatches(SubSeq(s, Len(p) + 1, Len(s)), p)
    ELSE s

\* str::contains
Contains(s, pat) ==
    \E i \in 1..(Len(s) - Len(pat) + 1) : SubSeq(s, i, i + Len(pat) - 1) = pat

\* str::replace: every non-overlapping match, scanning from the left
RECURSIVE Replace(_, _, _)
Replace(s, from, to) ==
    IF s = <<>> THEN <<>>
    ELSE IF StartsWith(s, from)
         THEN to \o Replace(SubSeq(s, Len(from) + 1, Len(s)), from, to)
         ELSE <<Head(s)>> \o Replace(Tail(s), from, to)

\* char::is_digit(10)
IsDigit(c) ==
    c \in Digits

(***************************************************************************)
(* EnumConfig and the configuration table of build_config_map.             *)
(***************************************************************************)
\* impl Default for EnumConfig
DefaultEnumConfig ==
    [name |-> <<>>, custom_name |-> None, prefix |-> <<>>, is_flags |-> FALSE]

VmaMemoryUsage ==
    <<"V", "m", "a", "M", "e", "m", "o", "r", "y", "U", "s", "a", "g", "e">>
VMA_MEMORY_USAGE_ ==
    <<"V", "M", "A", "_", "M", "E", "M", "O", "R", "Y", "_", "U", "S", "A", "G", "E", "_">>
VmaAllocationCreateFlagBits ==
    <<"V", "m", "a", "A", "l", "l", "o", "c", "a", "t", "i", "o", "n", "C", "r", "e", "a", "t", "e", "F", "l", "a", "g", "B", "i", "t", "s">>
VMA_ALLOCATION_CREATE_ ==
    <<"V", "M", "A", "_", "A", "L", "L", "O", "C", "A", "T", "I", "O", "N", "_", "C", "R", "E", "A", "T", "E", "_">>
VmaPoolCreateFlagBits ==
    <<"V", "m", "a", "P", "o", "o", "l", "C", "r", "e", "a", "t", "e", "F", "l", "a", "g", "B", "i", "t", "s">>
VMA_POOL_CREATE_ ==
    <<"V", "M", "A", "_", "P", "O", "O", "L", "_", "C", "R", "E", "A", "T", "E", "_">>
VmaAllocatorCreateFlagBits ==
    <<"V", "m", "a", "A", "l", "l", "o", "c", "a", "t", "o", "r", "C", "r", "e", "a", "t", "e", "F", "l", "a", "g", "B", "i", "t", "s">>
VMA_ALLOCATOR_CREATE_ ==
    <<"V", "M", "A", "_", "A", "L", "L", "O", "C", "A", "T", "O", "R", "_", "C", "R", "E", "A", "T", "E", "_">>
VmaDefragmentationFlagBits ==
    <<"V", "m", "a", "D", "e", "f", "r", "a", "g", "m", "e", "n", "t", "a", "t", "i", "o", "n", "F", "l", "a", "g", "B", "i", "t", "s">>
VMA_DEFRAGMENTATION_FLAG_ ==
    <<"V", "M", "A", "_", "D", "E", "F", "R", "A", "G", "M", "E", "N", "T", "A", "T", "I", "O", "N", "_", "F", "L", "A", "G", "_">>
VmaDefragmentationMoveOperation ==
    <<"V", "m", "a", "D", "e", "f", "r", "a", "g", "m", "e", "n", "t", "a", "t", "i", "o", "n", "M", "o", "v", "e", "O", "p", "e", "r", "a", "t", "i", "o", "n">>
VMA_DEFRAGMENTATION_MOVE_OPERATION_ ==
    <<"V", "M", "A", "_", "D", "E", "F", "R", "A", "G", "M", "E", "N", "T", "A", "T", "I", "O", "N", "_", "M", "O", "V", "E", "_", "O", "P", "E", "R", "A", "T", "I", "O", "N", "_">>
VmaVirtualBlockCreateFlagBits ==
    <<"V", "m", "a", "V", "i", "r", "t", "u", "a", "l", "B", "l", "o", "c", "k", "C", "r", "e", "a", "t", "e", "F", "l", "a", "g", "B", "i", "t", "s">>
VMA_VIRTUAL_BLOCK_CREATE_ ==
    <<"V", "M", "A", "_", "V", "I", "R", "T", "U", "A", "L", "_", "B", "L", "O", "C", "K", "_", "C", "R", "E", "A", "T", "E", "_">>
VmaVirtualAllocationCreateFlagBits ==
    <<"V", "m", "a", "V", "i", "r", "t", "u", "a", "l", "A", "l", "l", "o", "c", "a", "t", "i", "o", "n", "C", "r", "e", "a", "t", "e", "F", "l", "a", "g", "B", "i", "t", "s">>
VMA_VIRTUAL_ALLOCATION_CREATE_ ==
    <<"V", "M", "A", "_", "V", "I", "R", "T", "U", "A", "L", "_", "A", "L", "L", "O", "C", "A", "T", "I", "O", "N", "_", "C", "R", "E", "A", "T", "E", "_">>

\* the table `configs` of build_config_map, in its order
configs ==
    <<[DefaultEnumConfig EXCEPT !.name = VmaMemoryUsage,
          !.prefix = VMA_MEMORY_USAGE_],
      [DefaultEnumConfig EXCEPT !.name = VmaAllocationCreateFlagBits,
          !.prefix = VMA_ALLOCATION_CREATE_,
          !.is_flags = TRUE],
      [DefaultEnumConfig EXCEPT !.name = VmaPoolCreateFlagBits,
          !.prefix = VMA_POOL_CREATE_,
          !.is_flags = TRUE],
      [DefaultEnumConfig EXCEPT !.name = VmaAllocatorCreateFlagBits,
          !.prefix = VMA_ALLOCATOR_CREATE_,
          !.is_flags = TRUE],
      [DefaultEnumConfig EXCEPT !.name = VmaDefragmentationFlagBits,
          !.prefix = VMA_DEFRAGMENTATION_FLAG_,
          !.is_flags = TRUE],
      [DefaultEnumConfig EXCEPT !.name = VmaDefragmentationMoveOperation,
          !.prefix = VMA_DEFRAGMENTATION_MOVE_OPERATION_],
      [DefaultEnumConfig EXCEPT !.name = VmaVirtualBlockCreateFlagBits,
          !.prefix = VMA_VIRTUAL_BLOCK_CREATE_,
          !.is_flags = TRUE],
      [DefaultEnumConfig EXCEPT !.name = VmaVirtualAllocationCreateFlagBits,
          !.prefix = VMA_VIRTUAL_ALLOCATION_CREATE_,
          !.is_flags = TRUE]>>

\* cargo_warning!: one line "cargo:warning=<msg>: <arg>" on the build log
Warning(msg, arg) ==
    [msg |-> msg, arg |-> arg]

\* variant of ConfigInsert: an entry already present is kept (first wins)
ConfigInsertKeepOld(acc, config) ==
    [map |-> [n \in DOMAIN acc.map \cup {config.name} |->
                 IF n \in DOMAIN acc.map THEN acc.map[n] ELSE config],
     warns |-> IF config.name \in DOMAIN acc.map
               THEN Append(acc.warns,
                           Warning("Duplicate enum config found", acc.map[config.name].name))
               ELSE acc.warns]

\* HashMap::insert(config.name, config).inspect(|c| cargo_warning!(...)):
\* the new entry replaces an old one, and the old one's name is reported
ConfigInsert(acc, config) ==
    [map |-> [n \in DOMAIN acc.map \cup {config.name} |->
                 IF n = config.name THEN config ELSE acc.map[n]],
     warns |-> IF config.name \in DOMAIN acc.map
               THEN Append(acc.warns,
                           Warning("Duplicate enum config found", acc.map[config.name].name))
               ELSE acc.warns]

RECURSIVE BuildConfigMapOf(_)
BuildConfigMapOf(table) ==
    IF table = <<>>
    THEN [map |-> <<>>, warns |-> <<>>]
    ELSE ConfigInsert(BuildConfigMapOf(SubSeq(table, 1, Len(table) - 1)),
                      table[Len(table)])

build_config_map ==
    BuildConfigMapOf(configs)

(***************************************************************************)
(* Naming transforms.                                                      *)
(***************************************************************************)
format_enum_name(name) ==
    TrimStartMatches(name, VmaBrand)

\* variant of format_flag_enum_name: the FlagBits text is left in the name
format_flag_enum_name_keep_bits(name) ==
    TrimStartMatches(name, VmaBrand)

format_flag_enum_name(name) ==
    Replace(TrimStartMatches(name, VmaBrand), FlagBitsText, FlagsText)

\* variant of PrefixLessLast: the slice keeps the final character
PrefixWhole(prefix) ==
    prefix

\* &prefix[..prefix.len() - 1]
PrefixLessLast(prefix) ==
    SubSeq(prefix, 1, Len(prefix) - 1)

\* The part shared by both variant formatters: strip_prefix, then the test
\* of the first character (unwrap of chars().next() panics on empty text,
\* prefix.len() - 1 panics on an empty prefix), then the second strip.
\* panic = the call unwinds; ret = the Option it returns otherwise.
StripVariantPrefix(prefix, name) ==
    LET stripped == StripPrefix(name, prefix) IN
    IF ~stripped.some THEN [panic |-> FALSE, ret |-> None]
    ELSE IF stripped.val = <<>> THEN [panic |-> TRUE, ret |-> None]
    ELSE IF ~IsDigit(Head(stripped.val)) THEN [panic |-> FALSE, ret |-> stripped]
    ELSE IF prefix = <<>> THEN [panic |-> TRUE, ret |-> None]
    ELSE LET again == StripPrefix(name, PrefixLessLast(prefix)) IN
         [panic |-> ~again.some, ret |-> again]

format_enum_variant_name(prefix, name) ==
    LET r == StripVariantPrefix(prefix, name) IN
    [panic |-> r.panic,
     ret   |-> r.ret,
     warns |-> IF ~StripPrefix(name, prefix).some
               THEN <<Warning("Failed to strip prefix from enum", name)>>
               ELSE <<>>]

format_flag_variant_name(prefix, name) ==
    LET r == StripVariantPrefix(prefix, name) IN
    [panic |-> r.panic,
     ret   |-> IF r.ret.some THEN Some(Replace(r.ret.val, BitTag, <<>>)) ELSE None,
     warns |-> <<>>]

\* variant of filter_enum_variant: the filter lets every name through
filter_enum_variant_off(name) ==
    TRUE

filter_enum_variant(name) ==
    ~Contains(name, MaxEnumMarker)

(***************************************************************************)
(* The emitters.  A written definition is recorded as                      *)
(*   kind      "enum" (pub enum, #[repr(i32)]) or "flags" (bitflags!)      *)
(*   new_name  the emitted type name                                       *)
(*   native    the native type of the assert_eq_size! line                 *)
(*   head      how many of the writeln! calls before the variant loop      *)
(*             were completed                                              *)
(*   lines     the variant lines written, each "<name> = <variant>"        *)
(*   tail      how many of the writeln! calls after the variant loop were  *)
(*             completed                                                   *)
(*   torn      whether the writeln! that failed left a proper, non-empty   *)
(*             part of its text in the file                                *)
(*   complete  whether all the text of the definition was written, which   *)
(*             for an enum includes from_raw and as_raw                    *)
(* The writer parameter is enums.rs as the emitter sees it: the file is    *)
(* unbuffered, each writeln! is unwrapped, and a writer either takes every *)
(* write or completes `after` more writeln! calls and fails in the next,   *)
(* everything written before the failure staying in the file.              *)
(***************************************************************************)
VariantNames(variants) ==
    [i \in 1..Len(variants) |-> variants[i].name]

\* a writer every write to which succeeds
Unfailing ==
    [fails |-> FALSE, after |-> 0, torn |-> FALSE]

\* the writer's next writeln! call fails
FailsNow(writer) ==
    writer.fails /\ writer.after = 0

\* the writer after it completed n writeln! calls
Wrote(writer, n) ==
    IF writer.fails THEN [writer EXCEPT !.after = @ - n] ELSE writer

\* how many of n consecutive writeln! calls the writer completes
Completes(writer, n) ==
    IF writer.fails /\ writer.after < n THEN writer.after ELSE n

\* writeln! calls of write_enum before and after its variant loop
EnumHeadWrites == 3
EnumTailWrites == 7
\* the same of write_flags
FlagsHeadWrites == 3
FlagsTailWrites == 4

\* the for loop of write_enum over the filtered variant names
RECURSIVE EnumVariantLoop(_, _, _, _)
EnumVariantLoop(writer, prefix, names, skip) ==
    IF names = <<>> THEN [lines |-> <<>>, warns |-> <<>>, panic |-> "none"]
    ELSE LET variant == Head(names) IN
         IF variant \in skip THEN EnumVariantLoop(writer, prefix, Tail(names), skip)
         ELSE LET f == format_enum_variant_name(prefix, variant) IN
              IF f.panic THEN [lines |-> <<>>, warns |-> f.warns, panic |-> "format"]
              ELSE IF ~f.ret.some
              THEN LET rest == EnumVariantLoop(writer, prefix, Tail(names), skip) IN
                   [lines |-> rest.lines, warns |-> f.warns \o rest.warns,
                    panic |-> rest.panic]
              ELSE IF FailsNow(writer)
              THEN [lines |-> <<>>, warns |-> f.warns, panic |-> "writeln"]
              ELSE LET rest == EnumVariantLoop(Wrote(writer, 1), prefix, Tail(names), skip) IN
                   [lines |-> <<[name |-> f.ret.val, variant |-> variant]>> \o rest.lines,
                    warns |-> f.warns \o rest.warns,
                    panic |-> rest.panic]

\* what an emitter leaves, from its head writes, its loop and its tail
\* writes; the last writeln! of a definition writes a newline only and
\* cannot be torn
Emitted(writer, kind, new_name, native, headWrites, body, tailWrites) ==
    LET head == Completes(writer, headWrites)
        reached == head = headWrites
        afterLoop == Wrote(writer, headWrites + Len(body.lines))
        tail == IF reached /\ body.panic = "none"
                THEN Completes(afterLoop, tailWrites) ELSE 0
        panic == IF ~reached THEN "writeln"
                 ELSE IF body.panic # "none" THEN body.panic
                 ELSE IF tail < tailWrites THEN "writeln"
                 ELSE "none"
    IN [def |-> [kind |-> kind, new_name |-> new_name, native |-> native,
                 head |-> head,
                 lines |-> IF reached THEN body.lines ELSE <<>>,
                 tail |-> tail,
                 torn |-> panic = "writeln" /\ writer.torn /\ tail < tailWrites - 1,
                 complete |-> panic = "none"],
        warns |-> IF reached THEN body.warns ELSE <<>>,
        panic |-> panic]

write_enum(writer, enum_config, variants, skip) ==
    LET new_name == IF enum_config.custom_name.some
                    THEN enum_config.custom_name.val
                    ELSE format_enum_name(enum_config.name)
        body == EnumVariantLoop(Wrote(writer, Completes(writer, EnumHeadWrites)),
                                enum_config.prefix,
                                SelectSeq(VariantNames(variants), filter_enum_variant),
                                skip)
    IN Emitted(writer, "enum", new_name, enum_config.name, EnumHeadWrites, body,
               EnumTailWrites)

\* the for loop of write_flags over the filtered variant names
RECURSIVE FlagVariantLoop(_, _, _)
FlagVariantLoop(writer, prefix, names) ==
    IF names = <<>> THEN [lines |-> <<>>, warns |-> <<>>, panic |-> "none"]
    ELSE LET variant == Head(names) IN
         IF Contains(variant, MaxEnumMarker) THEN FlagVariantLoop(writer, prefix, Tail(names))
         ELSE LET f == format_flag_variant_name(prefix, variant) IN
              IF f.panic THEN [lines |-> <<>>, warns |-> f.warns, panic |-> "format"]
              ELSE IF ~f.ret.some
              THEN LET rest == FlagVariantLoop(writer, prefix, Tail(names)) IN
                   [lines |-> rest.lines, warns |-> f.warns \o rest.warns,
                    panic |-> rest.panic]
              ELSE IF FailsNow(writer)
              THEN [lines |-> <<>>, warns |-> f.warns, panic |-> "writeln"]
              ELSE LET rest == FlagVariantLoop(Wrote(writer, 1), prefix, Tail(names)) IN
                   [lines |-> <<[name |-> f.ret.val, variant |-> variant]>> \o rest.lines,
                    warns |-> f.warns \o rest.warns,
                    panic |-> rest.panic]

write_flags(writer, enum_config, variants) ==
    LET enum_name == IF enum_config.custom_name.some
                     THEN enum_config.custom_name.val
                     ELSE format_flag_enum_name(enum_config.name)
        body == FlagVariantLoop(Wrote(writer, Completes(writer, FlagsHeadWrites)),
                                enum_config.prefix,
                                SelectSeq(VariantNames(variants), filter_enum_variant))
    IN Emitted(writer, "flags", enum_name, enum_config.name, FlagsHeadWrites, body,
               FlagsTailWrites)

(***************************************************************************)
(* The scanner: FormatCallback::enum_variant_name and push_enum_variant.   *)
(* enum_map maps a type name to its EnumVec, a sequence of (name, value).  *)
(***************************************************************************)
\* vec.iter().map(|e| e.1).any(|e| e == value)
HasValue(vec, value) ==
    \E i \in 1..Len(vec) : vec[i].value = value

\* variant of push_enum_variant: no duplicate test
push_enum_variant_no_test(vec, variant, value) ==
    Append(vec, [name |-> variant, value |-> value])

\* variant of push_enum_variant: the duplicate test compares names
push_enum_variant_by_name(vec, variant, value) ==
    IF \E i \in 1..Len(vec) : vec[i].name = variant THEN vec
    ELSE Append(vec, [name |-> variant, value |-> value])

push_enum_variant(vec, variant, value) ==
    IF HasValue(vec, value) THEN vec
    ELSE Append(vec, [name |-> variant, value |-> value])

\* name.trim_start_matches("enum ")
TrimmedEnumName(enum_name) ==
    TrimStartMatches(enum_name.val, EnumKeyword)

\* the two early returns: no enclosing type name, or no "Vma" at its front
Retained(enum_name) ==
    /\ enum_name.some
    /\ StartsWith(TrimmedEnumName(enum_name), VmaBrand)

\* map.entry(key).or_insert_with(Vec::new)
EntryOrInsert(map, key) ==
    [k \in DOMAIN map \cup {key} |-> IF k \in DOMAIN map THEN map[k] ELSE <<>>]

\* the whole callback, run by one thread with the mutex held throughout
enum_variant_name(map, enum_name, original_variant_name, variant_value) ==
    IF ~enum_name.some
    THEN [map |-> map,
          warns |-> <<Warning("No enum name found for variant", original_variant_name)>>]
    ELSE IF ~Retained(enum_name) THEN [map |-> map, warns |-> <<>>]
    ELSE LET key == TrimmedEnumName(enum_name)
             m == EntryOrInsert(map, key)
         IN [map |-> [m EXCEPT ![key] =
                         push_enum_variant(@, original_variant_name, variant_value)],
             warns |-> <<>>]

(***************************************************************************)
(* Bounds of the model.                                                    *)
(***************************************************************************)
\* callbacks delivered during one bindgen run
MaxCallbacks == 2
\* threads delivering callbacks in the concurrent scan
NumThreads == 2
\* callbacks delivered in the concurrent scan
MaxScanCallbacks == 3
\* length of the text after the prefix in the formatter inputs
MaxSuffixLen == 5
\* entries of a configuration table given to build_config_map
MaxTableLen == 3

(***************************************************************************)
(* Inputs.  Declarations is the scanned header: each enumerator with the   *)
(* enclosing type name bindgen passes (None for an anonymous enum, with or *)
(* without the "enum " keyword) and its value.  Enumerator names are       *)
(* unique in a C translation unit.                                         *)
(***************************************************************************)
Decl(enum_name, name, value) ==
    [enum_name |-> enum_name, name |-> name, value |-> value]

VmaNewFeature ==
    <<"V", "m", "a", "N", "e", "w", "F", "e", "a", "t", "u", "r", "e">>

VkResult ==
    <<"V", "k", "R", "e", "s", "u", "l", "t">>

Declarations ==
    { Decl(Some(VmaMemoryUsage), VMA_MEMORY_USAGE_ \o <<"U", "N", "K", "N", "O", "W", "N">>, 0),
      Decl(Some(VmaMemoryUsage), VMA_MEMORY_USAGE_ \o <<"G", "P", "U">>, 1),
      Decl(Some(VmaMemoryUsage), VMA_MEMORY_USAGE_ \o <<"G", "P", "U", "_", "O", "L", "D">>, 1),
      Decl(Some(VmaMemoryUsage), VMA_MEMORY_USAGE_ \o MaxEnumMarker, 2147483647),
      Decl(Some(VmaMemoryUsage), VMA_MEMORY_USAGE_, 3),
      Decl(Some(VmaMemoryUsage), VMA_MEMORY_USAGE_ \o <<"2", "D">>, 5),
      Decl(Some(VmaMemoryUsage), <<"V", "M", "A", "_", "U", "S", "A", "G", "E">>, 4),
      Decl(Some(EnumKeyword \o VmaPoolCreateFlagBits),
           VMA_POOL_CREATE_ \o <<"L", "I", "N", "E", "A", "R", "_", "B", "I", "T">>, 4),
      Decl(Some(EnumKeyword \o VmaPoolCreateFlagBits),
           VMA_POOL_CREATE_ \o <<"F", "L", "A", "G", "_", "B", "I", "T", "S", "_">> \o MaxEnumMarker,
           2147483647),
      Decl(Some(EnumKeyword \o VmaPoolCreateFlagBits),
           <<"V", "M", "A", "_", "P", "O", "O", "L", "_", "B", "I", "T">>, 2),
      Decl(Some(EnumKeyword \o VmaPoolCreateFlagBits), VMA_POOL_CREATE_, 8),
      Decl(Some(EnumKeyword \o VmaNewFeature), <<"V", "M", "A", "_", "N", "E", "W">>, 0),
      Decl(Some(VkResult), <<"V", "K", "_", "S", "U", "C", "C", "E", "S", "S">>, 0),
      Decl(None, <<"V", "M", "A", "_", "A", "N", "O", "N">>, 1) }

\* the integer a declared enumerator denotes in the generated bindings
HeaderValue(variant) ==
    (CHOOSE d \in Declarations : d.name = variant).value

\* raw integers handed to from_raw (bit patterns of an i32)
RawPool ==
    {0, 2147483647}

\* all sequences over A of length at most n
SeqsUpTo(A, n) ==
    UNION {[1..k -> A] : k \in 0..n}

FOO_2_ ==
    <<"F", "O", "O", "_", "2", "_">>

FmtPrefixes ==
    {FOO_2_, VMA_POOL_CREATE_}

FmtAlphabet ==
    {"_", "B", "I", "T", "3"}

VariantJobs ==
    {[kind |-> "variant", prefix |-> p, name |-> q \o s,
      config |-> DefaultEnumConfig] :
        p \in FmtPrefixes, q \in FmtPrefixes, s \in SeqsUpTo(FmtAlphabet, MaxSuffixLen)}

\* the entries of the map build_config_map returns, which are the configs
\* main hands to write_enum and write_flags
TypeJobs ==
    {[kind |-> "type", prefix |-> <<>>, name |-> <<>>, config |-> build_config_map.map[k]] :
        k \in DOMAIN build_config_map.map}

(***************************************************************************)
(* State.                                                                  *)
(***************************************************************************)
VARIABLES
    pc,           \* position of main: "start", "parsing", "generating", "done", "aborted"
    env,          \* whether VULKAN_SDK is set and the header exists
    enum_map,     \* Arc<Mutex<EnumMap>>: type name -> EnumVec
    delivered,    \* the enum_variant_name calls made so far, in order
    warnings,     \* the cargo:warning lines printed so far
    fileCreated,  \* whether enums.rs was created
    out,          \* the definitions written to enums.rs, in order
    todo,         \* the entries of enum_map the for loop of main has not visited
    conv,         \* the last call of an emitted conversion
    mutex,        \* holder of the enum_map mutex (0 = free)
    cb,           \* per thread: the callback it runs and its position in it
    fmtIn,        \* input of a formatter call
    fmtOut,       \* its result
    cfg,          \* a configuration table given to build_config_map, and its result
    panicAt       \* what made main panic: "none" while it has not

vars ==
    <<pc, env, enum_map, delivered, warnings, fileCreated, out, todo, conv,
      mutex, cb, fmtIn, fmtOut, cfg, panicAt>>

Threads ==
    1..NumThreads

IdleCallback ==
    [at |-> "idle", arg |-> Decl(None, <<>>, 0), dup |-> FALSE]

NoConv ==
    [op |-> "none", ty |-> <<>>, v |-> <<>>, raw |-> 0, ub |-> FALSE, returned |-> TRUE,
     result |-> <<>>]

NoFmtIn ==
    [kind |-> "none", prefix |-> <<>>, name |-> <<>>, config |-> DefaultEnumConfig]

NoFmtOut ==
    [done |-> FALSE, enum |-> [panic |-> FALSE, ret |-> None, warns |-> <<>>],
     flag |-> [panic |-> FALSE, ret |-> None, warns |-> <<>>], type_name |-> <<>>]

NoCfg ==
    [table |-> <<>>, done |-> FALSE, map |-> <<>>, warns |-> <<>>]

InitCommon ==
    /\ enum_map = <<>>
    /\ delivered = <<>>
    /\ warnings = <<>>
    /\ fileCreated = FALSE
    /\ out = <<>>
    /\ todo = {}
    /\ conv = NoConv
    /\ mutex = 0
    /\ cb = [t \in Threads |-> IdleCallback]
    /\ fmtOut = NoFmtOut
    /\ panicAt = "none"

(***************************************************************************)
(* Spec: one run of main, with the callbacks delivered one at a time.      *)
(***************************************************************************)
Init ==
    /\ InitCommon
    /\ pc = "start"
    /\ env \in [sdk : BOOLEAN, header : BOOLEAN]
    /\ fmtIn = NoFmtIn
    /\ cfg = NoCfg

\* build.rs 25-33: var("VULKAN_SDK").expect(..) and the header's existence
CheckPreconditions ==
    /\ pc = "start"
    /\ pc' = IF env.sdk /\ env.header THEN "parsing" ELSE "aborted"
    /\ panicAt' = IF ~env.sdk THEN "VULKAN_SDK" ELSE IF ~env.header THEN "header" ELSE "none"
    /\ UNCHANGED <<env, enum_map, delivered, warnings, fileCreated, out, todo, conv,
                   mutex, cb, fmtIn, fmtOut, cfg>>

\* bindgen calls enum_variant_name for a variant it found
Callback ==
    /\ pc = "parsing"
    /\ Len(delivered) < MaxCallbacks
    /\ \E d \in Declarations :
          LET r == enum_variant_name(enum_map, d.enum_name, d.name, d.value) IN
          /\ enum_map' = r.map
          /\ warnings' = warnings \o r.warns
          /\ delivered' = Append(delivered, d)
    /\ UNCHANGED <<pc, env, fileCreated, out, todo, conv, mutex, cb, fmtIn, fmtOut, cfg, panicAt>>

\* what the run meets after the precondition checks: whether generate()
\* returns Ok, and whether OUT_DIR is set and names an existing directory
GenerateResults ==
    {"Ok", "Err"}

OutDirs ==
    {"directory", "unset", "no such directory"}

\* the writers a definition of a type with these recorded variants can
\* meet: one that takes every write, or one that fails in any of the
\* writeln! calls the definition can make, torn or not
Writers(is_flags, variants) ==
    LET most == IF is_flags
                THEN FlagsHeadWrites + Len(variants) + FlagsTailWrites
                ELSE EnumHeadWrites + Len(variants) + EnumTailWrites
    IN {Unfailing} \cup
       {[fails |-> TRUE, after |-> k, torn |-> t] : k \in 0..(most - 1), t \in BOOLEAN}

\* build.rs 53-64: generate() returns and is unwrapped, OUT_DIR is read
\* and unwrapped, the table is built, enums.rs is created and unwrapped,
\* and the iteration over the locked map starts.  Each unwrap panics on
\* Err: at 54 before OUT_DIR is read, at 56 before the table is built, at
\* 62 after it; in none of them the file exists.
StartGenerating ==
    /\ pc = "parsing"
    /\ \E generated \in GenerateResults, out_dir \in OutDirs :
          IF generated = "Err"
          THEN /\ pc' = "aborted"
               /\ panicAt' = "generate"
               /\ UNCHANGED <<warnings, fileCreated, todo>>
          ELSE IF out_dir = "unset"
          THEN /\ pc' = "aborted"
               /\ panicAt' = "OUT_DIR"
               /\ UNCHANGED <<warnings, fileCreated, todo>>
          ELSE IF out_dir = "no such directory"
          THEN /\ pc' = "aborted"
               /\ panicAt' = "File::create"
               /\ warnings' = warnings \o build_config_map.warns
               /\ UNCHANGED <<fileCreated, todo>>
          ELSE /\ pc' = "generating"
               /\ warnings' = warnings \o build_config_map.warns
               /\ fileCreated' = TRUE
               /\ todo' = DOMAIN enum_map
               /\ UNCHANGED panicAt
    /\ UNCHANGED <<env, enum_map, delivered, out, conv, mutex, cb, fmtIn, fmtOut, cfg>>

\* build.rs 64-83: one iteration of the for loop; HashMap iteration order
\* is arbitrary.  A panic inside write_enum or write_flags unwinds main
\* with the text written so far left in the file and the warnings printed
\* so far on the output: the formatter's panic and a failing write (every
\* writeln! is unwrapped) both leave the definition cut short where they
\* happen.
LoopIteration ==
    /\ pc = "generating"
    /\ \E enum_name \in todo :
          LET prefix_map == build_config_map.map IN
          /\ todo' = todo \ {enum_name}
          /\ IF enum_name \notin DOMAIN prefix_map
             THEN /\ warnings' = Append(warnings, Warning("No prefix found for enum", enum_name))
                  /\ UNCHANGED <<pc, out, panicAt>>
             ELSE \E writer \in Writers(prefix_map[enum_name].is_flags, enum_map[enum_name]) :
                     LET config == prefix_map[enum_name]
                         w == IF ~config.is_flags
                              THEN write_enum(writer, config, enum_map[enum_name], {})
                              ELSE write_flags(writer, config, enum_map[enum_name])
                     IN /\ out' = IF w.def.head = 0 /\ ~w.def.torn
                                  THEN out ELSE Append(out, w.def)
                        /\ warnings' = warnings \o w.warns
                        /\ pc' = IF w.panic # "none" THEN "aborted" ELSE pc
                        /\ panicAt' = IF w.panic # "none" THEN w.panic ELSE panicAt
    /\ UNCHANGED <<env, enum_map, delivered, fileCreated, conv, mutex, cb, fmtIn, fmtOut, cfg>>

\* build.rs 84-85: the loop is over and main returns
LoopEnd ==
    /\ pc = "generating"
    /\ todo = {}
    /\ pc' = "done"
    /\ UNCHANGED <<env, enum_map, delivered, warnings, fileCreated, out, todo, conv,
                   mutex, cb, fmtIn, fmtOut, cfg, panicAt>>

(***************************************************************************)
(* The conversions write_enum emits for a plain enum (build.rs 164-175):   *)
(*   from_raw(value: i32) -> Self { unsafe { std::mem::transmute(value) } } *)
(*   as_raw(&self) -> i32 { *self as i32 }                                 *)
(* The enum is #[repr(i32)] and each line "<name> = <variant>" gives the   *)
(* variant the value of the native constant <variant>.                     *)
(***************************************************************************)
Discriminant(line) ==
    HeaderValue(line.variant)

\* *self as i32, self being the variant of line j
as_raw(def, j) ==
    Discriminant(def.lines[j])

\* a value of the enum type whose bits are no variant's discriminant
InvalidValue ==
    <<"?">>

\* transmute::<i32, Self>(value): the variant with that discriminant; for a
\* bit pattern that is no variant's discriminant the behaviour is undefined
\* (ub): the call may yield any variant or an invalid value, or not return
\* at all (a build with debug assertions aborts the process with "trying
\* to construct an enum from an invalid value")
from_raw(def, value) ==
    LET matches == {j \in DOMAIN def.lines : Discriminant(def.lines[j]) = value} IN
    IF matches # {}
    THEN {[ub |-> FALSE, returned |-> TRUE, result |-> def.lines[j].name] : j \in matches}
    ELSE {[ub |-> TRUE, returned |-> TRUE, result |-> r] :
             r \in {def.lines[j].name : j \in DOMAIN def.lines} \cup {InvalidValue}}
         \cup {[ub |-> TRUE, returned |-> FALSE, result |-> <<>>]}

\* whether the generated module compiles: a #[repr(i32)] enum needs a
\* variant (E0084), no two variants of an enum have one discriminant
\* (E0081), and the names written in one definition are distinct
\* identifiers
Compiles(defs) ==
    \A n \in DOMAIN defs :
        /\ defs[n].complete
        /\ defs[n].kind = "enum" => defs[n].lines # <<>>
        /\ \A m \in DOMAIN defs[n].lines :
              /\ defs[n].lines[m].name # <<>>
              /\ ~IsDigit(defs[n].lines[m].name[1])
        /\ \A m, k \in DOMAIN defs[n].lines :
              m # k => /\ defs[n].lines[m].name # defs[n].lines[k].name
                       /\ defs[n].kind = "enum" =>
                             Discriminant(defs[n].lines[m]) # Discriminant(defs[n].lines[k])

\* code using the generated module calls from_raw on an emitted enum
FromRawCall ==
    /\ pc = "done"
    /\ Compiles(out)
    /\ \E i \in DOMAIN out, raw \in RawPool :
          /\ out[i].kind = "enum"
          /\ \E o \in from_raw(out[i], raw) :
                conv' = [op |-> "from_raw", ty |-> out[i].new_name, v |-> <<>>,
                         raw |-> raw, ub |-> o.ub, returned |-> o.returned,
                         result |-> o.result]
    /\ UNCHANGED <<pc, env, enum_map, delivered, warnings, fileCreated, out, todo,
                   mutex, cb, fmtIn, fmtOut, cfg, panicAt>>

\* ... and from_raw(v.as_raw()) on a named value v of an emitted enum
RoundTripCall ==
    /\ pc = "done"
    /\ Compiles(out)
    /\ \E i \in DOMAIN out :
          /\ out[i].kind = "enum"
          /\ \E j \in DOMAIN out[i].lines :
                LET raw == as_raw(out[i], j) IN
                \E o \in from_raw(out[i], raw) :
                   conv' = [op |-> "round_trip", ty |-> out[i].new_name,
                            v |-> out[i].lines[j].name,
                            raw |-> raw, ub |-> o.ub, returned |-> o.returned,
                            result |-> o.result]
    /\ UNCHANGED <<pc, env, enum_map, delivered, warnings, fileCreated, out, todo,
                   mutex, cb, fmtIn, fmtOut, cfg, panicAt>>

Next ==
    \/ CheckPreconditions
    \/ Callback
    \/ StartGenerating
    \/ LoopIteration
    \/ LoopEnd
    \/ FromRawCall
    \/ RoundTripCall

Spec ==
    Init /\ [][Next]_vars

(***************************************************************************)
(* Properties of one run of main (Spec).                                   *)
(***************************************************************************)
\* the type name a delivered callback is recorded under
KeyOf(d) ==
    TrimmedEnumName(d.enum_name)

\* the retained callbacks delivered for one type, in delivery order
DeliveredFor(key) ==
    SelectSeq(delivered, LAMBDA d : Retained(d.enum_name) /\ KeyOf(d) = key)

\* position of the first declaration in ds that carries the value
FirstIndex(ds, value) ==
    CHOOSE i \in 1..Len(ds) :
        /\ ds[i].value = value
        /\ \A j \in 1..(i - 1) : ds[j].value # value

\* two differently named variants of one type with one value were delivered
AliasDelivered(key) ==
    \E i, j \in 1..Len(delivered) :
        /\ i < j
        /\ Retained(delivered[i].enum_name) /\ KeyOf(delivered[i]) = key
        /\ Retained(delivered[j].enum_name) /\ KeyOf(delivered[j]) = key
        /\ delivered[i].value = delivered[j].value
        /\ delivered[i].name # delivered[j].name

\* C1: duplicate suppression.  For every type, the recorded variants are
\* exactly the first-delivered variant of each value, in delivery order, so
\* their values are pairwise distinct; and every variant line written to
\* the output names the first-declared variant of its value.
C1_DuplicateSuppression ==
    /\ \A key \in DOMAIN enum_map :
          LET vec == enum_map[key]
              ds == DeliveredFor(key)
          IN /\ \A i, j \in 1..Len(vec) : i # j => vec[i].value # vec[j].value
             /\ \A i \in 1..Len(ds) : \E k \in 1..Len(vec) : vec[k].value = ds[i].value
             /\ \A k \in 1..Len(vec) :
                   /\ \E i \in 1..Len(ds) : ds[i].value = vec[k].value
                   /\ vec[k].name = ds[FirstIndex(ds, vec[k].value)].name
             /\ \A k, l \in 1..Len(vec) :
                   k < l => FirstIndex(ds, vec[k].value) < FirstIndex(ds, vec[l].value)
    /\ \A n \in 1..Len(out) :
          LET ds == DeliveredFor(out[n].native) IN
          \A m \in 1..Len(out[n].lines) :
             LET variant == out[n].lines[m].variant IN
             /\ \E i \in 1..Len(ds) : ds[i].name = variant
             /\ ds[FirstIndex(ds, HeaderValue(variant))].name = variant

\* two aliases were delivered for a type, and its definition was written
\* with a line for the first of them
C1_Witness ==
    /\ pc = "done"
    /\ \E n \in 1..Len(out) :
          /\ AliasDelivered(out[n].native)
          /\ \E m \in 1..Len(out[n].lines), i, j \in 1..Len(delivered) :
                /\ i < j
                /\ delivered[i].name = out[n].lines[m].variant
                /\ delivered[j].value = delivered[i].value
                /\ delivered[j].name # delivered[i].name
                /\ delivered[j].enum_name = delivered[i].enum_name

\* C2: round-trip law.  In every plain enum written, the raw value of each
\* variant v written is the discriminant of v alone, so that
\* from_raw(as_raw(v)) is defined, returns and is v; and every round trip
\* made through the generated module gives back the value it started from.
C2_RoundTrip ==
    /\ conv.op = "round_trip" => (~conv.ub /\ conv.returned /\ conv.result = conv.v)
    /\ \A n \in 1..Len(out) :
          out[n].kind = "enum" =>
             \A j \in 1..Len(out[n].lines) :
                from_raw(out[n], HeaderValue(out[n].lines[j].variant)) =
                   {[ub |-> FALSE, returned |-> TRUE, result |-> out[n].lines[j].name]}

\* a round trip was made on a named value of an enum written with two
\* variants, or of one for which an alias was suppressed
C2_Witness ==
    /\ conv.op = "round_trip"
    /\ conv.returned
    /\ \E n \in 1..Len(out) :
          /\ out[n].kind = "enum"
          /\ out[n].new_name = conv.ty
          /\ \E m \in 1..Len(out[n].lines) : out[n].lines[m].name = conv.v
          /\ AliasDelivered(out[n].native) \/ Len(out[n].lines) >= 2

\* C3: from_raw is total: defined for every i32 bit pattern, including
\* values that are no variant's discriminant.
C3_FromRawTotal ==
    conv.op = "from_raw" => (~conv.ub /\ conv.returned)

\* the text MAX_ENUM occurs somewhere in the name
NamesSentinel(name) ==
    \E i \in 1..(Len(name) - Len(MaxEnumMarker) + 1) :
        \A c \in 1..Len(MaxEnumMarker) : name[i + c - 1] = MaxEnumMarker[c]

\* C4: sentinel exclusion.  No variant line of any written definition,
\* enum or flags, comes from a declared name containing MAX_ENUM.
C4_SentinelExcluded ==
    \A n \in 1..Len(out) : \A m \in 1..Len(out[n].lines) :
        ~NamesSentinel(out[n].lines[m].variant)

HasSentinel(vec) ==
    \E k \in 1..Len(vec) : NamesSentinel(vec[k].name)

\* an enum and a flags type were both written from variant lists that hold
\* a MAX_ENUM variant
C4_Witness ==
    /\ \E n \in 1..Len(out) :
          out[n].kind = "enum" /\ out[n].complete /\ HasSentinel(enum_map[out[n].native])
    /\ \E n \in 1..Len(out) :
          out[n].kind = "flags" /\ out[n].complete /\ HasSentinel(enum_map[out[n].native])

\* the for loop of main was entered and main has ended, either way
MainEnded ==
    fileCreated /\ pc \in {"done", "aborted"}

Unconfigured ==
    {key \in DOMAIN enum_map : key \notin DOMAIN build_config_map.map}

WarningsNaming(msg, arg) ==
    {i \in 1..Len(warnings) : warnings[i] = Warning(msg, arg)}

\* C6: unconfigured-enum scenario.  When a scanned type is absent from the
\* configuration table, the loop of main completes, no definition is
\* written for the type, exactly one warning names it, and every configured
\* scanned type is written.  Stated of the runs in which every write to
\* enums.rs succeeds.
C6_UnconfiguredEnum ==
    (MainEnded /\ panicAt # "writeln" /\ Unconfigured # {}) =>
        /\ pc = "done"
        /\ \A key \in Unconfigured :
              /\ Cardinality(WarningsNaming("No prefix found for enum", key)) = 1
              /\ \A n \in 1..Len(out) : out[n].native # key
        /\ \A key \in DOMAIN enum_map \ Unconfigured :
              \E n \in 1..Len(out) : out[n].native = key /\ out[n].complete

\* C7: every skipped variant is reported.  For every written definition,
\* enum or flags, each recorded variant whose name does not begin with the
\* configured prefix has no line and has a warning, and the definition is
\* completed with the remaining variants.
C7_SkipsReported ==
    \A n \in 1..Len(out) :
        out[n].complete =>
            LET vec == enum_map[out[n].native]
                prefix == build_config_map.map[out[n].native].prefix
            IN \A k \in 1..Len(vec) :
                  (/\ ~HasSentinel(<<vec[k]>>)
                   /\ ~(Len(prefix) <= Len(vec[k].name)
                        /\ SubSeq(vec[k].name, 1, Len(prefix)) = prefix))
                  => /\ \A m \in 1..Len(out[n].lines) :
                           out[n].lines[m].variant # vec[k].name
                     /\ WarningsNaming("Failed to strip prefix from enum",
                                       vec[k].name) # {}

\* C8: generation ends in one of two ways: it aborts on a missing
\* VULKAN_SDK or header, before parsing and before the file is created, or
\* it runs to completion; no scanned name makes it abort.  Stated of the
\* runs in which generate(), OUT_DIR, File::create and the writes succeed.
EnvironmentPanics ==
    {"generate", "OUT_DIR", "File::create", "writeln"}

C8_AbortOnlyOnPrecondition ==
    (pc = "aborted" /\ panicAt \notin EnvironmentPanics) =>
        /\ ~(env.sdk /\ env.header)
        /\ delivered = <<>>
        /\ ~fileCreated

(***************************************************************************)
(* SpecScan: the scan with callbacks delivered by several threads.  Each   *)
(* thread runs enum_variant_name step by step: the early returns, the      *)
(* lock, entry().or_insert_with(), the duplicate test of push_enum_variant *)
(* and its push, and the release of the guard when the callback returns.   *)
(* Here delivered lists the callbacks that have returned.                  *)
(***************************************************************************)
ScanDeclarations ==
    {d \in Declarations : d.value \in 0..1}

\* variant of CanLock: the lock is granted whoever holds it
CanLockAlways(holder) ==
    TRUE

\* self.enum_map.lock(): granted when no thread holds the mutex
CanLock(holder) ==
    holder = 0

InProgress ==
    {t \in Threads : cb[t].at # "idle"}

InitScan ==
    /\ InitCommon
    /\ pc = "parsing"
    /\ env = [sdk |-> TRUE, header |-> TRUE]
    /\ fmtIn = NoFmtIn
    /\ cfg = NoCfg

\* build.rs 247-257: the callback is entered and takes an early return, or
\* goes on to the lock
CbBegin(t) ==
    /\ cb[t].at = "idle"
    /\ Len(delivered) + Cardinality(InProgress) < MaxScanCallbacks
    /\ \E d \in ScanDeclarations :
          IF ~d.enum_name.some
          THEN /\ warnings' = Append(warnings,
                                     Warning("No enum name found for variant", d.name))
               /\ delivered' = Append(delivered, d)
               /\ cb' = cb
          ELSE IF ~Retained(d.enum_name)
          THEN /\ delivered' = Append(delivered, d)
               /\ UNCHANGED <<warnings, cb>>
          ELSE /\ cb' = [cb EXCEPT ![t] = [at |-> "lock", arg |-> d, dup |-> FALSE]]
               /\ UNCHANGED <<warnings, delivered>>
    /\ UNCHANGED <<pc, env, enum_map, fileCreated, out, todo, conv, mutex, fmtIn, fmtOut, cfg, panicAt>>

\* build.rs 259
CbLock(t) ==
    /\ cb[t].at = "lock"
    /\ CanLock(mutex)
    /\ mutex' = t
    /\ cb' = [cb EXCEPT ![t].at = "entry"]
    /\ UNCHANGED <<pc, env, enum_map, delivered, warnings, fileCreated, out, todo, conv,
                   fmtIn, fmtOut, cfg, panicAt>>

\* build.rs 260-262
CbEntry(t) ==
    /\ cb[t].at = "entry"
    /\ enum_map' = EntryOrInsert(enum_map, TrimmedEnumName(cb[t].arg.enum_name))
    /\ cb' = [cb EXCEPT ![t].at = "check"]
    /\ UNCHANGED <<pc, env, delivered, warnings, fileCreated, out, todo, conv, mutex,
                   fmtIn, fmtOut, cfg, panicAt>>

\* build.rs 231: the duplicate test of push_enum_variant
CbCheck(t) ==
    /\ cb[t].at = "check"
    /\ cb' = [cb EXCEPT ![t].at = "push",
                        ![t].dup = HasValue(enum_map[TrimmedEnumName(cb[t].arg.enum_name)],
                                            cb[t].arg.value)]
    /\ UNCHANGED <<pc, env, enum_map, delivered, warnings, fileCreated, out, todo, conv,
                   mutex, fmtIn, fmtOut, cfg, panicAt>>

\* build.rs 233-236: the return or the push of push_enum_variant
CbPush(t) ==
    /\ cb[t].at = "push"
    /\ enum_map' = IF cb[t].dup THEN enum_map
                   ELSE [enum_map EXCEPT ![TrimmedEnumName(cb[t].arg.enum_name)] =
                            Append(@, [name |-> cb[t].arg.name, value |-> cb[t].arg.value])]
    /\ cb' = [cb EXCEPT ![t].at = "unlock"]
    /\ UNCHANGED <<pc, env, delivered, warnings, fileCreated, out, todo, conv, mutex,
                   fmtIn, fmtOut, cfg, panicAt>>

\* build.rs 265-266: the callback returns and the guard is dropped
CbUnlock(t) ==
    /\ cb[t].at = "unlock"
    /\ mutex' = IF mutex = t THEN 0 ELSE mutex
    /\ delivered' = Append(delivered, cb[t].arg)
    /\ cb' = [cb EXCEPT ![t] = IdleCallback]
    /\ UNCHANGED <<pc, env, enum_map, warnings, fileCreated, out, todo, conv,
                   fmtIn, fmtOut, cfg, panicAt>>

NextScan ==
    \E t \in Threads :
        \/ CbBegin(t)
        \/ CbLock(t)
        \/ CbEntry(t)
        \/ CbCheck(t)
        \/ CbPush(t)
        \/ CbUnlock(t)

SpecScan ==
    InitScan /\ [][NextScan]_vars

\* the retained callbacks that have started: returned or in progress
StartedRetained ==
    {delivered[i] : i \in {j \in 1..Len(delivered) : Retained(delivered[j].enum_name)}}
        \cup {cb[t].arg : t \in InProgress}

\* C9: under any interleaving of callbacks, every type's recorded values
\* are pairwise distinct, every value of a returned callback for a type
\* with the Vma prefix is recorded exactly once under that type, and
\* nothing is recorded that does not come from such a callback (callbacks
\* without a type name or without the prefix leave the map as it is).
C9_MutexProtectsMap ==
    /\ \A key \in DOMAIN enum_map :
          \A i, j \in 1..Len(enum_map[key]) :
              i # j => enum_map[key][i].value # enum_map[key][j].value
    /\ \A i \in 1..Len(delivered) :
          LET d == delivered[i] IN
          Retained(d.enum_name) =>
              /\ KeyOf(d) \in DOMAIN enum_map
              /\ Cardinality({k \in 1..Len(enum_map[KeyOf(d)]) :
                                 enum_map[KeyOf(d)][k].value = d.value}) = 1
    /\ \A key \in DOMAIN enum_map :
          /\ Len(key) >= Len(VmaBrand) /\ SubSeq(key, 1, Len(VmaBrand)) = VmaBrand
          /\ \A k \in 1..Len(enum_map[key]) :
                \E d \in StartedRetained :
                    /\ KeyOf(d) = key
                    /\ d.name = enum_map[key][k].name
                    /\ d.value = enum_map[key][k].value

\* one thread is about to push under the mutex while another waits for the
\* lock with an alias of the same value for the same type
C9_Witness ==
    \E t, u \in Threads :
        /\ cb[t].at = "push" /\ ~cb[t].dup
        /\ cb[u].at = "lock"
        /\ KeyOf(cb[t].arg) = KeyOf(cb[u].arg)
        /\ cb[t].arg.value = cb[u].arg.value
        /\ cb[t].arg.name # cb[u].arg.name

(***************************************************************************)
(* SpecFmt: the naming transforms as pure functions.  Init draws one       *)
(* input: a (prefix, variant name) pair for the two variant formatters, or *)
(* an entry of the configuration table of build_config_map, for the type   *)
(* name write_enum / write_flags compute from it.                          *)
(***************************************************************************)
InitFmt ==
    /\ InitCommon
    /\ pc = "start"
    /\ env = [sdk |-> TRUE, header |-> TRUE]
    /\ fmtIn \in VariantJobs \cup TypeJobs
    /\ cfg = NoCfg

FormatVariantCall ==
    /\ fmtIn.kind = "variant"
    /\ ~fmtOut.done
    /\ fmtOut' = [fmtOut EXCEPT
                     !.done = TRUE,
                     !.enum = format_enum_variant_name(fmtIn.prefix, fmtIn.name),
                     !.flag = format_flag_variant_name(fmtIn.prefix, fmtIn.name)]
    /\ UNCHANGED <<pc, env, enum_map, delivered, warnings, fileCreated, out, todo, conv,
                   mutex, cb, fmtIn, cfg, panicAt>>

FormatTypeCall ==
    /\ fmtIn.kind = "type"
    /\ ~fmtOut.done
    /\ fmtOut' = [fmtOut EXCEPT
                     !.done = TRUE,
                     !.type_name = IF ~fmtIn.config.is_flags
                                   THEN write_enum(Unfailing, fmtIn.config, <<>>, {}).def.new_name
                                   ELSE write_flags(Unfailing, fmtIn.config, <<>>).def.new_name]
    /\ UNCHANGED <<pc, env, enum_map, delivered, warnings, fileCreated, out, todo, conv,
                   mutex, cb, fmtIn, cfg, panicAt>>

NextFmt ==
    \/ FormatVariantCall
    \/ FormatTypeCall

SpecFmt ==
    InitFmt /\ [][NextFmt]_vars

\* the variant name begins with the prefix
BeginsWithPrefix ==
    /\ Len(fmtIn.prefix) <= Len(fmtIn.name)
    /\ \A i \in 1..Len(fmtIn.prefix) : fmtIn.name[i] = fmtIn.prefix[i]

\* the text of the name after the prefix
AfterPrefix ==
    [i \in 1..(Len(fmtIn.name) - Len(fmtIn.prefix)) |-> fmtIn.name[Len(fmtIn.prefix) + i]]

\* the text the digit-leading rule describes: the name after the prefix,
\* or after the prefix less its final character when that begins with a digit
RuleText ==
    IF AfterPrefix # <<>> /\ AfterPrefix[1] \in Digits
    THEN <<fmtIn.prefix[Len(fmtIn.prefix)]>> \o AfterPrefix
    ELSE AfterPrefix

\* s with each occurrence of _BIT, found from the left, taken out
RECURSIVE WithoutBitTag(_, _)
WithoutBitTag(s, i) ==
    IF i > Len(s) THEN <<>>
    ELSE IF i + 3 <= Len(s) /\ <<s[i], s[i + 1], s[i + 2], s[i + 3]>> = <<"_", "B", "I", "T">>
         THEN WithoutBitTag(s, i + 4)
         ELSE <<s[i]>> \o WithoutBitTag(s, i + 1)

\* C5 as stated: for a name that begins with the prefix, both formatters
\* return the text the digit-leading rule describes, and it never begins
\* with a digit.  Stated here for the names longer than the prefix; on a
\* name equal to the prefix both calls panic (see C8), which refutes the
\* statement as well.
C5_DigitLeadingRule ==
    (fmtOut.done /\ fmtIn.kind = "variant" /\ BeginsWithPrefix /\ AfterPrefix # <<>>) =>
        /\ ~fmtOut.enum.panic /\ fmtOut.enum.ret = Some(RuleText)
        /\ ~fmtOut.flag.panic /\ fmtOut.flag.ret = Some(RuleText)
        /\ RuleText[1] \notin Digits

\* C5 amended: for a name that begins with the prefix and is longer than
\* it, format_enum_variant_name returns the text the rule describes, which
\* never begins with a digit, and format_flag_variant_name returns that
\* text with each occurrence of _BIT removed; for a name equal to the
\* prefix both calls panic.
C5_DigitLeadingRuleAmended ==
    (fmtOut.done /\ fmtIn.kind = "variant" /\ BeginsWithPrefix) =>
        IF AfterPrefix = <<>>
        THEN fmtOut.enum.panic /\ fmtOut.flag.panic
        ELSE /\ ~fmtOut.enum.panic /\ fmtOut.enum.ret = Some(RuleText)
             /\ RuleText[1] \notin Digits
             /\ ~fmtOut.flag.panic /\ fmtOut.flag.ret = Some(WithoutBitTag(RuleText, 1))

\* a name whose text after the prefix begins with a digit and holds _BIT
\* was formatted
C5_Witness ==
    /\ fmtOut.done /\ fmtIn.kind = "variant" /\ BeginsWithPrefix
    /\ AfterPrefix # <<>> /\ AfterPrefix[1] \in Digits
    /\ fmtOut.enum.ret.val[1] = "_"
    /\ fmtOut.flag.ret.val # fmtOut.enum.ret.val

\* the name with one leading Vma removed
LessOneBrand(name) ==
    IF Len(name) >= 3 /\ <<name[1], name[2], name[3]>> = <<"V", "m", "a">>
    THEN [i \in 1..(Len(name) - 3) |-> name[i + 3]]
    ELSE name

\* the name with a FlagBits suffix turned into Flags
SuffixToFlags(name) ==
    IF Len(name) >= 8
       /\ [i \in 1..8 |-> name[Len(name) - 8 + i]] = <<"F", "l", "a", "g", "B", "i", "t", "s">>
    THEN [i \in 1..(Len(name) - 8) |-> name[i]] \o <<"F", "l", "a", "g", "s">>
    ELSE name

\* C10: for every entry of the configuration table, the emitted type name
\* is the explicit rename when the entry has one, or else the original
\* name less one leading Vma, for a flags type with its FlagBits suffix
\* replaced by Flags, every other character unchanged.
C10_EmittedTypeName ==
    (fmtOut.done /\ fmtIn.kind = "type") =>
        fmtOut.type_name =
            IF fmtIn.config.custom_name.some THEN fmtIn.config.custom_name.val
            ELSE IF fmtIn.config.is_flags
                 THEN SuffixToFlags(LessOneBrand(fmtIn.config.name))
                 ELSE LessOneBrand(fmtIn.config.name)

\* the flags entry VmaPoolCreateFlagBits of the table was named
\* PoolCreateFlags
C10_Witness ==
    /\ fmtOut.done /\ fmtIn.kind = "type"
    /\ ~fmtIn.config.custom_name.some /\ fmtIn.config.is_flags
    /\ fmtIn.config.name = <<"V", "m", "a", "P", "o", "o", "l", "C", "r", "e", "a", "t", "e",
                              "F", "l", "a", "g", "B", "i", "t", "s">>
    /\ fmtOut.type_name = <<"P", "o", "o", "l", "C", "r", "e", "a", "t", "e",
                            "F", "l", "a", "g", "s">>

(***************************************************************************)
(* SpecCfg: build_config_map over a table of entries.  Init draws the      *)
(* table: the one of build.rs, or a short table over a few entries of      *)
(* which some share their type name and differ in prefix and is_flags.     *)
(***************************************************************************)
ConfigEntries ==
    {[DefaultEnumConfig EXCEPT !.name = n, !.prefix = p, !.is_flags = f] :
        n \in {VmaMemoryUsage, VmaPoolCreateFlagBits},
        p \in {VMA_MEMORY_USAGE_, VMA_POOL_CREATE_},
        f \in BOOLEAN}
      \cup {[DefaultEnumConfig EXCEPT !.name = VmaNewFeature, !.prefix = FOO_2_]}

ConfigTables ==
    SeqsUpTo(ConfigEntries, MaxTableLen) \cup {configs}

InitCfg ==
    /\ InitCommon
    /\ pc = "start"
    /\ env = [sdk |-> TRUE, header |-> TRUE]
    /\ fmtIn = NoFmtIn
    /\ cfg \in {[NoCfg EXCEPT !.table = t] : t \in ConfigTables}

\* build.rs 346-352: the insertion loop over the table, and the map returned
BuildConfigMapCall ==
    /\ ~cfg.done
    /\ LET r == BuildConfigMapOf(cfg.table) IN
       cfg' = [cfg EXCEPT !.done = TRUE, !.map = r.map, !.warns = r.warns]
    /\ UNCHANGED <<pc, env, enum_map, delivered, warnings, fileCreated, out, todo, conv,
                   mutex, cb, fmtIn, fmtOut, panicAt>>

NextCfg ==
    BuildConfigMapCall

SpecCfg ==
    InitCfg /\ [][NextCfg]_vars

\* positions of the table's entries for one type name
EntriesNamed(name) ==
    {i \in 1..Len(cfg.table) : cfg.table[i].name = name}

\* the last position in a non-empty set of positions
LastOf(positions) ==
    CHOOSE i \in positions : \A j \in positions : j <= i

\* C11: duplicate configuration entries.  The map built from a table has
\* exactly the table's type names as keys; each name maps to the entry
\* registered last for it; every warning is a duplicate-entry warning, and
\* the warnings naming a type are one fewer than its entries (one per
\* collision); construction always completes.
C11_DuplicateConfigEntries ==
    cfg.done =>
        /\ DOMAIN cfg.map = {cfg.table[i].name : i \in 1..Len(cfg.table)}
        /\ \A name \in DOMAIN cfg.map :
              /\ cfg.map[name] = cfg.table[LastOf(EntriesNamed(name))]
              /\ Cardinality({w \in 1..Len(cfg.warns) : cfg.warns[w].arg = name})
                    = Cardinality(EntriesNamed(name)) - 1
        /\ \A w \in 1..Len(cfg.warns) :
              /\ cfg.warns[w].msg = "Duplicate enum config found"
              /\ cfg.warns[w].arg \in DOMAIN cfg.map

\* a map was built from a table in which one type name is registered
\* twice with different entries, the first of them before an entry of
\* another name
C11_Witness ==
    /\ cfg.done
    /\ Len(cfg.table) = 3
    /\ cfg.table[1].name = cfg.table[3].name
    /\ cfg.table[1] # cfg.table[3]
    /\ cfg.table[2].name # cfg.table[1].name
    /\ cfg.map[cfg.table[1].name] = cfg.table[3]
    /\ Len(cfg.warns) = 1
====
